---------------------------- MODULE Spec2Model ----------------------------
(***************************************************************************)
(* A model of scripts/fetch.py: one invocation of main() after another     *)
(* against an output directory holding README.md and the dedupe file.      *)
(*                                                                         *)
(* Python values that may be None are sequences of length at most one:     *)
(* None is <<>> and a present value v is <<v>>.  A file is a record        *)
(* [exists, data]; the data of the dedupe file is its sequence of lines,   *)
(* the data of README.md is the sequence of documents written to it.       *)
(***************************************************************************)
EXTENDS Naturals, Sequences, FiniteSets, TLC

(* Bounds of the model. *)
MaxVersions == 2
MaxRuns == 2

None == <<>>
Some(v) == <<v>>

(***************************************************************************)
(* The data classes and the module-level list.                             *)
(***************************************************************************)
Download(sha1, size, url) == [sha1 |-> sha1, size |-> size, url |-> url]

Version(url, id_, type_, release_time, server, server_mappings) ==
    [url |-> url, id_ |-> id_, type_ |-> type_, release_time |-> release_time,
     server |-> server, server_mappings |-> server_mappings]

VersionManifest(version_string, versions) ==
    [version_string |-> version_string, versions |-> versions]

Experimental(id_, release_time, zip) ==
    Version(None, Some(id_), Some("experimental"), Some(release_time),
            Some(Download(None, None, Some(zip))), None)

EXPERIMENTAL_1_18_VERSIONS ==
    << Experimental("1.18-exp1", "2021-09-01T00:00:00+00:00",
         "https://launcher.mojang.com/v1/objects/231bba2a21e18b8c60976e1f6110c053b7b93226/1_18_experimental-snapshot-1.zip"),
       Experimental("1.18-exp2", "2021-09-02T00:00:00+00:00",
         "https://launcher.mojang.com/v1/objects/0adfe4f321aa45248fc88ac888bed5556633e7fb/1_18_experimental-snapshot-2.zip"),
       Experimental("1.18-exp3", "2021-09-03T00:00:00+00:00",
         "https://launcher.mojang.com/v1/objects/846648ff9fe60310d584061261de43010e5c722b/1_18_experimental-snapshot-3.zip"),
       Experimental("1.18-exp4", "2021-09-04T00:00:00+00:00",
         "https://launcher.mojang.com/v1/objects/b92a360cbae2eb896a62964ad8c06c3493b6c390/1_18_experimental-snapshot-4.zip"),
       Experimental("1.18-exp5", "2021-09-05T00:00:00+00:00",
         "https://launcher.mojang.com/v1/objects/d9cb7f6fb4e440862adfb40a385d83e3f8d154db/1_18_experimental-snapshot-5.zip"),
       Experimental("1.18-exp6", "2021-09-06T00:00:00+00:00",
         "https://launcher.mojang.com/v1/objects/4697c84c6a347d0b8766759d5b00bc5a00b1b858/1_18_experimental-snapshot-6.zip"),
       Experimental("1.18-exp7", "2021-09-08T00:00:00+00:00",
         "https://launcher.mojang.com/v1/objects/ab4ecebb133f56dd4c4c4c3257f030a947ddea84/1_18_experimental-snapshot-7.zip") >>

(***************************************************************************)
(* datetime.fromisoformat on the timestamp strings of the model: the       *)
(* instant in hours since 2021-08-31T00:00:00Z.  Two spellings of one      *)
(* instant parse to the same value; a string without UTC offset parses to  *)
(* a naive datetime.  None raises TypeError and any other string           *)
(* ValueError; both are Raised here.                                       *)
(***************************************************************************)
IsoNaive == {"2023-06-12T09:00:00"}

IsoInstant ==
    [s \in {"2021-09-01T00:00:00+00:00", "2021-09-02T00:00:00+00:00",
            "2021-09-03T00:00:00+00:00", "2021-09-04T00:00:00+00:00",
            "2021-09-05T00:00:00+00:00", "2021-09-06T00:00:00+00:00",
            "2021-09-08T00:00:00+00:00", "2023-06-12T09:00:00+00:00",
            "2023-06-12T10:00:00+01:00", "2023-06-12T09:00:00"} |->
        CASE s = "2021-09-01T00:00:00+00:00" -> 24
          [] s = "2021-09-02T00:00:00+00:00" -> 48
          [] s = "2021-09-03T00:00:00+00:00" -> 72
          [] s = "2021-09-04T00:00:00+00:00" -> 96
          [] s = "2021-09-05T00:00:00+00:00" -> 120
          [] s = "2021-09-06T00:00:00+00:00" -> 144
          [] s = "2021-09-08T00:00:00+00:00" -> 192
          [] s = "2023-06-12T09:00:00+00:00" -> 15609
          [] s = "2023-06-12T10:00:00+01:00" -> 15609
          [] s = "2023-06-12T09:00:00" -> 15609]

Raised == [raised |-> TRUE]
Value(v, aware) == [raised |-> FALSE, value |-> v, aware |-> aware]

fromisoformat(release_time) ==
    IF release_time = None THEN Raised
    ELSE IF release_time[1] \in DOMAIN IsoInstant
         THEN Value(IsoInstant[release_time[1]], release_time[1] \notin IsoNaive)
         ELSE Raised

SortKey(v) == fromisoformat(v.release_time)

(***************************************************************************)
(* sorted(version_list, key=...): a stable ascending sort, each element    *)
(* inserted after the elements whose key is not greater than its own.      *)
(* [::-1] reverses the result.                                             *)
(***************************************************************************)
Insert(sortedSeq, v) ==
    LET k == SortKey(v).value
        before == {i \in 1..Len(sortedSeq) : SortKey(sortedSeq[i]).value <= k}
        n == Cardinality(before)
    IN  SubSeq(sortedSeq, 1, n) \o <<v>> \o SubSeq(sortedSeq, n + 1, Len(sortedSeq))

RECURSIVE sorted(_)
sorted(list) ==
    IF list = <<>> THEN <<>>
    ELSE Insert(sorted(SubSeq(list, 1, Len(list) - 1)), list[Len(list)])

Reversed(list) == [i \in 1..Len(list) |-> list[Len(list) + 1 - i]]

KeysRaise(list) == \E i \in 1..Len(list) : SortKey(list[i]).raised

(* Comparing a naive datetime with an aware one raises TypeError, and sorting a *)
(* list that holds both kinds compares some such pair.                          *)
ComparisonRaises(list) ==
    \E i, j \in 1..Len(list) : SortKey(list[i]).aware # SortKey(list[j]).aware

SortRaises(list) == KeysRaise(list) \/ ComparisonRaises(list)

(* The reversal left out: oldest first. *)
SortedVersions_Ascending(list) == sorted(list)

SortedVersions(list) == Reversed(sorted(list))

(* The supplement left out of the list. *)
Merged_RemoteOnly(remote, supplement) == remote

(***************************************************************************)
(* remote + EXPERIMENTAL_1_18_VERSIONS: list addition builds a new list    *)
(* and leaves the module-level list as it was.                             *)
(***************************************************************************)
Merged(remote, supplement) == remote \o supplement

SupplementAfterMerge(remote, supplement) == supplement


(***************************************************************************)
(* The remote documents.  A JSON object is a record; a lookup through      *)
(* defaultdict(lambda: None, obj) yields None for a key the object lacks.  *)
(***************************************************************************)
VERSION_MANIFEST_JSON == "https://launchermeta.mojang.com/mc/game/version_manifest.json"

Get(obj, key) == IF key \in DOMAIN obj THEN Some(obj[key]) ELSE None

DetailDocIds == 1..6

DetailDoc(i) ==
    CASE i = 1 -> [id |-> "1.20.1", type |-> "release",
                   releaseTime |-> "2023-06-12T09:00:00+00:00",
                   downloads |-> [server |-> [sha1 |-> "abc123", size |-> 100,
                                              url |-> "http://x/server.jar"]]]
      [] i = 2 -> [id |-> "23w31a", type |-> "snapshot",
                   releaseTime |-> "2023-06-12T10:00:00+01:00",
                   downloads |-> [server |-> [url |-> "http://x/snapshot.jar"],
                                  server_mappings |-> [sha1 |-> "def456", size |-> 7,
                                                       url |-> "http://x/snapshot.txt"]]]
      [] i = 3 -> [id |-> "21w35a", type |-> "snapshot",
                   releaseTime |-> "2021-09-01T00:00:00+00:00"]
      [] i = 4 -> [id |-> "rd-132211", type |-> "old_alpha"]
      [] i = 5 -> [id |-> "1.0", type |-> "release",
                   releaseTime |-> "unknown"]
      [] i = 6 -> [id |-> "1.20", type |-> "release",
                   releaseTime |-> "2023-06-12T09:00:00",
                   downloads |-> [client |-> [url |-> "http://x/client.jar"]]]

UrlOf(i) == "https://launchermeta.mojang.com/v1/packages/" \o ToString(i) \o ".json"

Releases == {"1.20.1", "1.20.2"}
Snapshots == {"23w31a"}

Manifests ==
    {[latest |-> [release |-> r, snapshot |-> s],
      versions |-> [i \in 1..n |-> [url |-> UrlOf(i)]]] :
        r \in Releases, s \in Snapshots, n \in 0..MaxVersions}

(***************************************************************************)
(* process_version, given the parsed body of the detail document.          *)
(***************************************************************************)
DownloadOf(d) == Download(Get(d, "sha1"), Get(d, "size"), Get(d, "url"))

process_version(url, version) ==
    LET id_ == Get(version, "id")
        type_ == Get(version, "type")
        release_time == Get(version, "releaseTime")
        downloads == Get(version, "downloads")
        server == IF downloads # None /\ Get(downloads[1], "server") # None
                  THEN Some(DownloadOf(downloads[1].server)) ELSE None
        server_mappings ==
                  IF downloads # None /\ Get(downloads[1], "server_mappings") # None
                  THEN Some(DownloadOf(downloads[1].server_mappings)) ELSE None
    IN  Version(Some(url), id_, type_, release_time, server, server_mappings)

VersionString(vm_json) == vm_json.latest.release \o "/" \o vm_json.latest.snapshot

UrlList(vm_json) == [i \in 1..Len(vm_json.versions) |-> vm_json.versions[i].url]

(***************************************************************************)
(* Files.  The templates live outside the script: README.md.jinja renders  *)
(* the version list and the version string into one document, dedupe.jinja *)
(* renders the version string alone on a single line.                      *)
(***************************************************************************)
Absent == [exists |-> FALSE, data |-> <<>>]
Truncated == [exists |-> TRUE, data |-> <<>>]
Written(data) == [exists |-> TRUE, data |-> data]

RenderReadme(versions, vstring) == [version_list |-> versions, version_string |-> vstring]
RenderDedupe(vstring) == vstring

Lines(text) == IF text = "" THEN <<>> ELSE <<[text |-> text, newline |-> FALSE]>>

readline(file) ==
    IF file.data = <<>> THEN ""
    ELSE file.data[1].text \o (IF file.data[1].newline THEN "\n" ELSE "")

ReadPrevious(file) == IF file.exists THEN Some(readline(file)) ELSE None

(* A comparison that never finds the two strings the same. *)
SameVersion_Never(previous, vstring) == FALSE

SameVersion(previous, vstring) == previous = Some(vstring)

(***************************************************************************)
(* State.                                                                  *)
(***************************************************************************)
VARIABLES
    pc,                       \* where the current invocation of main() is
    runs,                     \* invocations started so far
    readme_file,              \* <output_directory>/README.md
    dedupe_file,              \* <output_directory>/dedupe
    experimental,             \* the module-level list while the script runs
    previous_version_string,  \* main's local
    vm_json,                  \* process_version_manifest's locals
    url_list,
    version_string,
    version_list,
    version_manifest,         \* what process_version_manifest returned
    readme,                   \* generate_and_print_md's locals
    dedupe,
    requests,                 \* the URLs requested by this invocation, in order
    failed_at,                \* the step at which this invocation raised
    files_at_start            \* history: the two files when this invocation began

vars == <<pc, runs, readme_file, dedupe_file, experimental, previous_version_string,
          vm_json, url_list, version_string, version_list, version_manifest, readme,
          dedupe, requests, failed_at, files_at_start>>

files == <<readme_file, dedupe_file>>
locals == <<previous_version_string, vm_json, url_list, version_string, version_list,
            version_manifest, readme, dedupe>>

NoLocals ==
    /\ previous_version_string' = None
    /\ vm_json' = None
    /\ url_list' = <<>>
    /\ version_string' = ""
    /\ version_list' = <<>>
    /\ version_manifest' = None
    /\ readme' = None
    /\ dedupe' = None

Exited == pc \in {"idle", "exit_unchanged", "exit_written", "exit_failed"}

Init ==
    /\ pc = "idle"
    /\ runs = 0
    /\ readme_file = Absent
    /\ dedupe_file = Absent
    /\ experimental = EXPERIMENTAL_1_18_VERSIONS
    /\ previous_version_string = None
    /\ vm_json = None
    /\ url_list = <<>>
    /\ version_string = ""
    /\ version_list = <<>>
    /\ version_manifest = None
    /\ readme = None
    /\ dedupe = None
    /\ requests = <<>>
    /\ failed_at = ""
    /\ files_at_start = <<Absent, Absent>>

(* An exception nobody catches: the traceback names the step, the process ends. *)
Raise(step) ==
    /\ pc' = "exit_failed"
    /\ failed_at' = step
    /\ NoLocals

(* The module is loaded; main, lines 207-218, reads the dedupe file. *)
Main_Start ==
    /\ Exited
    /\ runs < MaxRuns
    /\ runs' = runs + 1
    /\ pc' = "manifest"
    /\ experimental' = EXPERIMENTAL_1_18_VERSIONS
    /\ previous_version_string' = ReadPrevious(dedupe_file)
    /\ vm_json' = None
    /\ url_list' = <<>>
    /\ version_string' = ""
    /\ version_list' = <<>>
    /\ version_manifest' = None
    /\ readme' = None
    /\ dedupe' = None
    /\ requests' = <<>>
    /\ failed_at' = ""
    /\ files_at_start' = files
    /\ UNCHANGED files

(* process_version_manifest, lines 178-185, the manifest fetched and parsed. *)
FetchManifest ==
    /\ pc = "manifest"
    /\ \E manifest \in Manifests :
         /\ requests' = Append(requests, VERSION_MANIFEST_JSON)
         /\ vm_json' = Some(manifest)
         /\ url_list' = UrlList(manifest)
         /\ version_string' = VersionString(manifest)
         /\ pc' = IF SameVersion(previous_version_string, VersionString(manifest))
                  THEN "unchanged" ELSE "versions"
    /\ UNCHANGED <<runs, files, experimental, previous_version_string, version_list,
                   version_manifest, readme, dedupe, failed_at, files_at_start>>

(* The output opened before the manifest is known to be there. *)
FetchManifestFails_TouchesOutput ==
    /\ pc = "manifest"
    /\ requests' = Append(requests, VERSION_MANIFEST_JSON)
    /\ readme_file' = Truncated
    /\ Raise("manifest")
    /\ UNCHANGED <<runs, dedupe_file, experimental, files_at_start>>

(* lines 178-182 raising: no response, a body that is not JSON, a key missing. *)
FetchManifestFails ==
    /\ pc = "manifest"
    /\ requests' = Append(requests, VERSION_MANIFEST_JSON)
    /\ Raise("manifest")
    /\ UNCHANGED <<runs, files, experimental, files_at_start>>

(* line 187, one process_version(url) of the list comprehension. *)
ProcessVersion ==
    /\ pc = "versions"
    /\ Len(version_list) < Len(url_list)
    /\ LET url == url_list[Len(version_list) + 1] IN
         /\ requests' = Append(requests, url)
         /\ \E i \in DetailDocIds :
              version_list' = Append(version_list, process_version(url, DetailDoc(i)))
    /\ UNCHANGED <<pc, runs, files, experimental, previous_version_string, vm_json,
                   url_list, version_string, version_manifest, readme, dedupe,
                   failed_at, files_at_start>>

(* A failed detail fetch swallowed: the entry is dropped and the loop goes on. *)
ProcessVersionFails_Skips ==
    /\ pc = "versions"
    /\ Len(version_list) < Len(url_list)
    /\ requests' = Append(requests, url_list[Len(version_list) + 1])
    /\ url_list' = SubSeq(url_list, 1, Len(version_list))
                      \o SubSeq(url_list, Len(version_list) + 2, Len(url_list))
    /\ UNCHANGED <<pc, runs, files, experimental, previous_version_string, vm_json,
                   version_string, version_list, version_manifest, readme, dedupe,
                   failed_at, files_at_start>>

(* line 148 raising: no response, or a body that is not a JSON object. *)
ProcessVersionFails ==
    /\ pc = "versions"
    /\ Len(version_list) < Len(url_list)
    /\ requests' = Append(requests, url_list[Len(version_list) + 1])
    /\ Raise("process_version")
    /\ UNCHANGED <<runs, files, experimental, files_at_start>>

(* lines 187-190: the supplement appended, the list sorted, the manifest returned; *)
(* a key that cannot be computed or compared raises out of sorted().               *)
SortVersions ==
    /\ pc = "versions"
    /\ Len(version_list) = Len(url_list)
    /\ experimental' = SupplementAfterMerge(version_list, experimental)
    /\ IF SortRaises(Merged(version_list, experimental))
       THEN /\ Raise("sort")
            /\ UNCHANGED <<runs, files, requests, files_at_start>>
       ELSE /\ version_manifest' =
                  Some(VersionManifest(version_string,
                         SortedVersions(Merged(version_list, experimental))))
            /\ pc' = "render"
            /\ UNCHANGED <<runs, files, previous_version_string, vm_json, url_list,
                           version_string, version_list, readme, dedupe, requests,
                           failed_at, files_at_start>>

(* The output opened for writing before main returns. *)
Main_Unchanged_Truncating ==
    /\ pc = "unchanged"
    /\ pc' = "exit_unchanged"
    /\ readme_file' = Truncated
    /\ NoLocals
    /\ UNCHANGED <<runs, dedupe_file, experimental, requests, failed_at, files_at_start>>

(* main, lines 221-223: None came back, main returns. *)
Main_Unchanged ==
    /\ pc = "unchanged"
    /\ pc' = "exit_unchanged"
    /\ NoLocals
    /\ UNCHANGED <<runs, files, experimental, requests, failed_at, files_at_start>>

(* generate_and_print_md, lines 194-198. *)
Render ==
    /\ pc = "render"
    /\ readme' = Some(RenderReadme(version_manifest[1].versions,
                                   version_manifest[1].version_string))
    /\ dedupe' = Some(RenderDedupe(version_manifest[1].version_string))
    /\ pc' = "open_readme"
    /\ UNCHANGED <<runs, files, experimental, previous_version_string, vm_json, url_list,
                   version_string, version_list, version_manifest, requests, failed_at,
                   files_at_start>>

(* Both files opened for writing at once. *)
OpenReadme_OpensBoth ==
    /\ pc = "open_readme"
    /\ readme_file' = Truncated
    /\ dedupe_file' = Truncated
    /\ pc' = "write_readme"
    /\ UNCHANGED <<runs, experimental, locals, requests, failed_at, files_at_start>>

(* line 201: open(readme_file, "w") creates or truncates the file. *)
OpenReadme ==
    /\ pc = "open_readme"
    /\ readme_file' = Truncated
    /\ pc' = "write_readme"
    /\ UNCHANGED <<runs, dedupe_file, experimental, locals, requests, failed_at,
                   files_at_start>>

(* line 202. *)
WriteReadme ==
    /\ pc = "write_readme"
    /\ readme_file' = Written(readme)
    /\ pc' = "open_dedupe"
    /\ UNCHANGED <<runs, dedupe_file, experimental, locals, requests, failed_at,
                   files_at_start>>

(* line 203. *)
OpenDedupe ==
    /\ pc = "open_dedupe"
    /\ dedupe_file' = Truncated
    /\ pc' = "write_dedupe"
    /\ UNCHANGED <<runs, readme_file, experimental, locals, requests, failed_at,
                   files_at_start>>

(* line 204, and main's line 227. *)
WriteDedupe ==
    /\ pc = "write_dedupe"
    /\ dedupe_file' = Written(Lines(dedupe[1]))
    /\ pc' = "exit_written"
    /\ NoLocals
    /\ UNCHANGED <<runs, readme_file, experimental, requests, failed_at, files_at_start>>

(* A template that cannot be loaded or rendered, or an OSError from open or write. *)
OutputFails ==
    /\ pc \in {"render", "open_readme", "write_readme", "open_dedupe", "write_dedupe"}
    /\ Raise(pc)
    /\ UNCHANGED <<runs, files, experimental, requests, files_at_start>>

Next ==
    \/ Main_Start
    \/ FetchManifest
    \/ FetchManifestFails
    \/ ProcessVersion
    \/ ProcessVersionFails
    \/ SortVersions
    \/ Main_Unchanged
    \/ Render
    \/ OpenReadme
    \/ WriteReadme
    \/ OpenDedupe
    \/ WriteDedupe
    \/ OutputFails

Spec == Init /\ [][Next]_vars

(***************************************************************************)
(* Properties.                                                             *)
(***************************************************************************)
Catalog == version_manifest[1].versions
Returned == version_manifest # None
ManifestFetched == pc \in {"unchanged", "versions", "render", "open_readme",
                           "write_readme", "open_dedupe", "write_dedupe"}
Instant(v) == SortKey(v).value
IsRemote(v) == v.url # None
Occurrences(list, v) == Cardinality({i \in 1..Len(list) : list[i] = v})

(* C1: once the manifest is fetched and its fingerprint equals the previous one, *)
(* process_version_manifest has returned None, no version was processed and the  *)
(* manifest request is the only request of the invocation, also when it ends.    *)
C1_UnchangedFetchesNothing ==
    /\ (ManifestFetched /\ previous_version_string = Some(version_string)) =>
          /\ pc = "unchanged"
          /\ version_manifest = None
          /\ version_list = <<>>
          /\ requests = <<VERSION_MANIFEST_JSON>>
    /\ pc = "exit_unchanged" => requests = <<VERSION_MANIFEST_JSON>>

C1_Witness ==
    /\ pc = "exit_unchanged"
    /\ requests = <<VERSION_MANIFEST_JSON>>
    /\ readline(dedupe_file) = "1.20.2/23w31a"

(* C2: in an invocation where None came back nothing was rendered, README.md and *)
(* the dedupe file hold what they held when the invocation began, and the        *)
(* invocation ends by returning from main, not by raising.                       *)
C2_UnchangedWritesNothing ==
    /\ [](pc \in {"unchanged", "exit_unchanged"} =>
            (files = files_at_start /\ readme = None /\ dedupe = None))
    /\ [][pc = "unchanged" => (pc' = "exit_unchanged" /\ failed_at' = "")]_vars

C2_Witness ==
    /\ pc = "exit_unchanged"
    /\ files = files_at_start
    /\ readme_file.data # <<>>
    /\ dedupe_file.data # <<>>

(* C3: two entries of the returned list with the same instant stand in the order *)
(* they had in the merged list before sorting (remote entries, then supplement). *)
C3_TiesKeepDiscoveryOrder ==
    Returned =>
        LET merged == Merged(version_list, experimental)
            Pos(v) == CHOOSE k \in 1..Len(merged) : merged[k] = v
        IN  \A i, j \in 1..Len(Catalog) :
                (i < j /\ Instant(Catalog[i]) = Instant(Catalog[j]))
                    => Pos(Catalog[i]) < Pos(Catalog[j])

(* C4: when the merged list holds an entry whose release_time does not parse, the *)
(* build still returns the remaining entries, sorted.                             *)
C4_UnparseableEntryRejected ==
    [][(/\ pc = "versions"
        /\ Len(version_list) = Len(url_list)
        /\ KeysRaise(Merged(version_list, experimental)))
         => /\ version_manifest' # None
            /\ version_manifest'[1].versions =
                 SortedVersions(SelectSeq(Merged(version_list, experimental),
                                          LAMBDA v : ~SortKey(v).raised))]_vars

(* C5: the returned list is non-increasing by instant at every adjacent pair. *)
C5_NonIncreasing ==
    Returned =>
        \A i \in 1..(Len(Catalog) - 1) : Instant(Catalog[i]) >= Instant(Catalog[i + 1])

C5_Witness ==
    /\ Returned
    /\ Len(version_list) = 2
    /\ IsRemote(Catalog[1])
    /\ IsRemote(Catalog[Len(Catalog)])
    /\ Instant(Catalog[1]) > Instant(Catalog[Len(Catalog)])

(* C6: an invocation that raised while fetching or parsing the manifest requested *)
(* nothing else, returned no list and left README.md and the dedupe file as they  *)
(* were, absent if they were absent.                                              *)
C6_ManifestFailureWritesNothing ==
    failed_at = "manifest" =>
        /\ pc = "exit_failed"
        /\ requests = <<VERSION_MANIFEST_JSON>>
        /\ version_manifest = None
        /\ files = files_at_start

C6_Witness ==
    /\ failed_at = "manifest"
    /\ pc = "exit_failed"
    /\ dedupe_file.data # <<>>
    /\ files = files_at_start

(* C7: a returned list holds exactly one entry for every reference of the         *)
(* manifest, and so as many entries as references plus supplement entries; an     *)
(* invocation in which a detail fetch raised returned nothing and wrote nothing.  *)
C7_NoEntryDropped ==
    /\ Returned =>
          /\ Len(Catalog) = Len(vm_json[1].versions) + Len(EXPERIMENTAL_1_18_VERSIONS)
          /\ \A k \in 1..Len(vm_json[1].versions) :
                Cardinality({i \in 1..Len(Catalog) :
                               Catalog[i].url = Some(vm_json[1].versions[k].url)}) = 1
    /\ failed_at = "process_version" =>
          /\ pc = "exit_failed"
          /\ version_manifest = None
          /\ files = files_at_start

C7_Witness ==
    /\ Returned
    /\ Len(vm_json[1].versions) = 2
    /\ Len(Catalog) = 2 + Len(EXPERIMENTAL_1_18_VERSIONS)

(* C8: every supplement entry is in a returned list exactly once, typed            *)
(* "experimental" and without url, and the module-level list is never changed.     *)
C8_SupplementIncluded ==
    /\ experimental = EXPERIMENTAL_1_18_VERSIONS
    /\ Returned =>
          \A k \in 1..Len(EXPERIMENTAL_1_18_VERSIONS) :
              /\ Occurrences(Catalog, EXPERIMENTAL_1_18_VERSIONS[k]) = 1
              /\ EXPERIMENTAL_1_18_VERSIONS[k].type_ = Some("experimental")
              /\ EXPERIMENTAL_1_18_VERSIONS[k].url = None
              /\ Cardinality({i \in 1..Len(Catalog) :
                                /\ Catalog[i].id_ = EXPERIMENTAL_1_18_VERSIONS[k].id_
                                /\ Catalog[i].type_ = Some("experimental")
                                /\ Catalog[i].url = None}) = 1

C8_Witness ==
    /\ Returned
    /\ Len(version_list) > 0
    /\ \E i \in 1..Len(Catalog) : Catalog[i] = EXPERIMENTAL_1_18_VERSIONS[7]

(* C9: an invocation that found the dedupe file absent or empty never gets None   *)
(* back and, once every fetch has succeeded, does not stop short of the full      *)
(* build.                                                                         *)
FirstRun == runs > 0 /\ files_at_start[2].data = <<>>

C9_FirstRunBuilds ==
    FirstRun =>
        /\ pc \notin {"unchanged", "exit_unchanged"}
        /\ failed_at # "sort"

(* C10: the dedupe file changes only once README.md holds the document rendered    *)
(* from the list this invocation got back, and is then given that list's version  *)
(* string; until README.md is written the dedupe file is as the invocation found  *)
(* it and does not read back as the manifest's version string.                    *)
ReadmeWritten ==
    /\ Returned
    /\ readme_file = Written(<<RenderReadme(Catalog, version_manifest[1].version_string)>>)

C10_DedupeAfterReadme ==
    /\ [](pc \in {"versions", "render", "open_readme", "write_readme", "open_dedupe"} =>
            /\ dedupe_file = files_at_start[2]
            /\ ~SameVersion(ReadPrevious(dedupe_file), version_string))
    /\ [][/\ dedupe_file' # dedupe_file =>
               /\ pc \in {"open_dedupe", "write_dedupe"}
               /\ ReadmeWritten
               /\ dedupe_file' \in {Truncated,
                                    Written(Lines(version_manifest[1].version_string))}
          /\ (pc' = "exit_failed" /\ failed_at' \notin {"open_dedupe", "write_dedupe"}) =>
               dedupe_file' = files_at_start[2]]_vars

C10_Witness ==
    /\ pc = "exit_failed"
    /\ failed_at = "write_readme"
    /\ readme_file = Truncated
    /\ dedupe_file.data # <<>>

=============================================================================
